---- MODULE Spec2Model ----
(***************************************************************************)
(* KissFS (student-distrib/fs/kissfs.cpp): a read-only filesystem driver   *)
(* over a preloaded image.  The model keeps the decoded tables, the open   *)
(* descriptors and, for the last call made, its arguments, its return      *)
(* value, the caller's buffer and the table / image accesses it performed. *)
(*                                                                         *)
(* Bytes copied out of data blocks are modelled by their provenance: a     *)
(* buffer cell written by readBlock holds the image address it was copied  *)
(* from (rawBlockId * BlockSize + offset), an untouched cell holds         *)
(* Untouched.  Filenames are sequences of characters, 0 being NUL.         *)
(***************************************************************************)
EXTENDS Integers, Sequences, FiniteSets, TLC

\* ---------------------------------------------------------------- constants
\* Compile-time constants of inc/fs/kiss.h, scaled down.
BlockSize == 3
MaxNumFiles == 2
MaxFilenameLength == 2
\* Modulus of uint32_t arithmetic, scaled down from 2^32.
U32 == 32
\* An inode block holds the size word and then the data-block ids.
MaxFileBlocks == BlockSize - 1

SPECIAL_DEVICE == 0
DIRECTORY == 1
NORMAL_FILE == 2

\* ------------------------------------------------------------------- bounds
MaxOpen == 2        \* descriptors open at the same time
MaxLen == 6         \* largest len argument of a read on a file
MaxOffset == 3      \* largest offset argument of read
MaxDataRegion == 2  \* blocks of the image after the boot block and the inode blocks
\* Capacity of the buffer a directory entry is read into: a name, its terminator
\* and one byte more.
DirBufLen == MaxFilenameLength + 2

Untouched == 0 - 1   \* a buffer cell no copy has written
Nothing == 0 - 1     \* Maybe<uint32_t>: no value
Unset == 0 - 1       \* a stat field the call did not assign

Min(a, b) == IF a < b THEN a ELSE b

\* ------------------------------------------------------------ 32-bit helpers
Add32(a, b) == (a + b) % U32
Sub32(a, b) == (a + U32 - b) % U32
\* uint32_t returned through an int32_t
ToInt32(x) == IF x >= U32 \div 2 THEN x - U32 ELSE x
\* memory::ceil(a, b)
Ceil(a, b) == (a + b - 1) \div b

\* --------------------------------------------------------------- C strings
RECURSIVE CStrLen(_, _)
\* number of characters of s, from position p on, before the first NUL
CStrLen(s, p) == IF p > Len(s) \/ s[p] = 0 THEN 0 ELSE 1 + CStrLen(s, p + 1)
CStr(s) == SubSeq(s, 1, CStrLen(s, 1))
HasNul(s) == \E p \in 1..Len(s) : s[p] = 0

\* ------------------------------------------------------------------- images
Chars == {0, 1}
Filenames == [1..MaxFilenameLength -> Chars]
DataIds == {0, 1, U32 - 1}
FileSizes == 0..(MaxFileBlocks * BlockSize)

\* The inode blocks an image may hold: a size and the ids of its data blocks.
InodeBlocks ==
    UNION { [size : {sz}, datablocks : [1..Ceil(sz, BlockSize) -> DataIds]] : sz \in FileSizes }
FillerInodeBlock == [size |-> 1, datablocks |-> <<1>>]
\* Records an image holds beyond the first MaxNumFiles; the driver never decodes them.
ExcessDentry == [filename |-> [p \in 1..MaxFilenameLength |-> 1], filetype |-> NORMAL_FILE, inode |-> 0]

\* Images whose directory varies: every filename, every filetype.
DirImages ==
    UNION { [numDentries : {nd},
             numInodes : {1},
             numTotalDataBlocks : {2},
             dentries : { [i \in 1..nd |-> IF i <= MaxNumFiles THEN f[i] ELSE ExcessDentry] :
                            f \in [1..Min(nd, MaxNumFiles) ->
                                     [filename : Filenames,
                                      filetype : {SPECIAL_DEVICE, DIRECTORY, NORMAL_FILE},
                                      inode : {0}]] },
             inodeBlocks : { << [size |-> BlockSize + 1, datablocks |-> <<0, 1>>] >> },
             numBytes : {4 * BlockSize}] : nd \in 0..(MaxNumFiles + 1) }

\* Images whose inode table varies: one file, any inode index in its dentry, a
\* first inode block of any content followed by filler blocks, any data-block
\* count in the boot block, and zero to MaxDataRegion blocks after the inode blocks.
DataImages ==
    UNION { [numDentries : {1},
             numInodes : {ni},
             numTotalDataBlocks : {0, U32 - 1},
             dentries : { << [filename |-> [p \in 1..MaxFilenameLength |-> IF p = 1 THEN 1 ELSE 0],
                              filetype |-> NORMAL_FILE, inode |-> ino] >> : ino \in 0..MaxNumFiles },
             inodeBlocks : IF ni = 0 THEN { <<>> }
                           ELSE { [i \in 1..ni |-> IF i = 1 THEN ib ELSE FillerInodeBlock] :
                                    ib \in InodeBlocks },
             numBytes : { (1 + ni + nd) * BlockSize : nd \in 0..MaxDataRegion }]
            : ni \in 0..(MaxNumFiles + 1) }

\* ------------------------------------------------------------------- state
VARIABLES
    image,               \* the module the driver was initialised from
    numDentries, numInodes, numTotalDataBlocks, numBlocks,
    dentries, inodes,    \* the decoded tables (sequences; C index i is position i + 1)
    fds,                 \* the KissFileDescriptorData objects alive, by slot
    op,                  \* the call that has just returned (kind "none": no call),
                         \* with the arguments the driver read
    res                  \* that call's results and the accesses it made

tables == <<image, numDentries, numInodes, numTotalDataBlocks, numBlocks, dentries, inodes>>
vars == <<image, numDentries, numInodes, numTotalDataBlocks, numBlocks, dentries, inodes, fds, op, res>>

NoFd == [filetype |-> Unset, idx |-> 0, max |-> 0, inode |-> 0]
NoDentry == [filename |-> <<>>, filetype |-> Unset, inode |-> Unset]
NoStat == [st_mode |-> "unset", st_size |-> Unset]
NoOp == [kind |-> "none", fd |-> 0, name |-> <<>>, offset |-> 0, len |-> 0, index |-> 0]
\* Results of a call: ret, the caller's buffer after it, the stat / dentry it filled,
\* the block copies it issued, and the dentry / inode table indices it read.
NoRes == [ret |-> 0, buf |-> <<>>, st |-> NoStat, dentry |-> NoDentry,
          copies |-> <<>>, dAcc |-> {}, iAcc |-> {}]

\* What a read past the end of the inode table / the dentry table may find.
GarbageInodes == { [size |-> 0, numDataBlocks |-> 0, datablocks |-> <<>>],
                   [size |-> BlockSize, numDataBlocks |-> 1, datablocks |-> <<0>>] }
GarbageDentries == { [filename |-> [p \in 1..MaxFilenameLength |-> 0], filetype |-> SPECIAL_DEVICE, inode |-> 0],
                     [filename |-> [p \in 1..MaxFilenameLength |-> 1], filetype |-> NORMAL_FILE, inode |-> 1] }

\* ----------------------------------------------------- initFromMemoryAddress
ClampFiles(n) == IF n > MaxNumFiles THEN MaxNumFiles ELSE n
DecodeInode(ib) ==
    [size |-> ib.size, numDataBlocks |-> Ceil(ib.size, BlockSize), datablocks |-> ib.datablocks]
InitFromMemoryAddress(img) ==
    /\ image = img
    /\ numDentries = ClampFiles(img.numDentries)
    /\ numInodes = ClampFiles(img.numInodes)
    /\ numTotalDataBlocks = img.numTotalDataBlocks
    /\ dentries = [i \in 1..ClampFiles(img.numDentries) |-> img.dentries[i]]
    /\ inodes = [i \in 1..ClampFiles(img.numInodes) |-> DecodeInode(img.inodeBlocks[i])]
    /\ numBlocks = img.numBytes \div BlockSize

InitState(images) ==
    /\ \E img \in images : InitFromMemoryAddress(img)
    /\ fds = [f \in 1..MaxOpen |-> NoFd]
    /\ op = NoOp
    /\ res = NoRes

\* ------------------------------------------------- the filename hash index
\* Filename(const char*): the characters before the first NUL, at most
\* MaxFilenameLength of them.
NameOf(fn) == CStr(SubSeq(fn, 1, Min(Len(fn), MaxFilenameLength)))
\* dentryIndexOfFilename after the puts of initFromMemoryAddress, in dentry order:
\* a later put of the same name replaces the earlier one.
Matches(name) == { i \in 0..(numDentries - 1) : NameOf(dentries[i + 1].filename) = name }
Found(name) == Matches(name) # {}
DentryIndexOfFilename(name) == CHOOSE i \in Matches(name) : \A j \in Matches(name) : j <= i

\* ------------------------------------------------------------------ helpers
OpenFds == { f \in 1..MaxOpen : fds[f] # NoFd }
FreeFds == { f \in 1..MaxOpen : fds[f] = NoFd }
\* new: the slot the next KissFileDescriptorData is allocated in
NewSlot == CHOOSE f \in FreeFds : \A g \in FreeFds : f <= g
OpenNames == UNION { [1..n -> Chars \ {0}] : n \in 0..MaxFilenameLength }
\* bytes after a filename that fills its array, up to the next NUL
Tails == { <<>>, <<1>> }
\* inodes[i] / dentries[i]: the table's entry, or, past the end of the table, any
\* of the values the memory there may hold
InodeAt(i) == IF i < numInodes THEN {inodes[i + 1]} ELSE GarbageInodes
DentryAt(i) == IF i < numDentries THEN {dentries[i + 1]} ELSE GarbageDentries
\* the bytes strncpy finds after filename[MaxFilenameLength - 1] when it reads on
FilenameOverrun(fn, len) == IF HasNul(fn) \/ len <= MaxFilenameLength THEN {<<>>} ELSE Tails
\* no call is in progress or waiting to be taken
Idle == op = NoOp

\* --------------------------------------------------------------------- open
NewFd(dentryIdx) ==
    IF dentries[dentryIdx + 1].filetype = DIRECTORY
    THEN [filetype |-> DIRECTORY, idx |-> 0, max |-> numDentries, inode |-> 0]
    ELSE [filetype |-> dentries[dentryIdx + 1].filetype, idx |-> 0, max |-> 0,
          inode |-> dentries[dentryIdx + 1].inode]

Open ==
    \E name \in OpenNames :
        /\ Idle
        /\ IF ~Found(name)
           THEN /\ op' = [NoOp EXCEPT !.kind = "open", !.name = name]
                /\ res' = [NoRes EXCEPT !.ret = 0]
                /\ UNCHANGED <<tables, fds>>
           ELSE /\ FreeFds # {}
                /\ fds' = [fds EXCEPT ![NewSlot] = NewFd(DentryIndexOfFilename(name))]
                /\ op' = [NoOp EXCEPT !.kind = "open", !.name = name, !.fd = NewSlot]
                /\ res' = [NoRes EXCEPT !.ret = 1, !.dAcc = {DentryIndexOfFilename(name)}]
                /\ UNCHANGED tables

\* ------------------------------------------------------------------ readDir
\* strncpy(buf, src, len): the string's characters, then NULs, len bytes in all
Strncpy(prior, src, len) ==
    [p \in 1..Len(prior) |->
        IF p <= len THEN (IF p <= CStrLen(src, 1) THEN src[p] ELSE 0) ELSE prior[p]]
\* strlen(buf): the values it may return; a scan that finds no NUL in the buffer
\* runs on into the memory after it
Strlen(b) == IF HasNul(b) THEN {CStrLen(b, 1)} ELSE {Len(b), Len(b) + 1}

\* dentries[data->dentryData.idx].filename (an empty array once idx has reached max)
DirFilename(data) == IF data.idx < Len(dentries) THEN dentries[data.idx + 1].filename ELSE <<>>
\* ReadDir taking offset for a number of entries to skip.
ReadDir_SkipsOffset(data, offset, prior, len, tail) ==
    IF data.idx >= data.max
    THEN [fd |-> data, ret |-> {0}, buf |-> prior, dAcc |-> {}]
    ELSE LET b == Strncpy(prior, DirFilename(data) \o tail \o <<0>>, len)
         IN [fd |-> [data EXCEPT !.idx = Add32(Add32(data.idx, offset), 1)],
             ret |-> { ToInt32(n) : n \in Strlen(b) },
             buf |-> b,
             dAcc |-> {data.idx}]
\* ReadDir rewinding the cursor when it reports the end of the directory.
ReadDir_Rewinds(data, offset, prior, len, tail) ==
    IF data.idx >= data.max
    THEN [fd |-> [data EXCEPT !.idx = 0], ret |-> {0}, buf |-> prior, dAcc |-> {}]
    ELSE LET b == Strncpy(prior, DirFilename(data) \o tail \o <<0>>, len)
         IN [fd |-> [data EXCEPT !.idx = Add32(data.idx, 1)],
             ret |-> { ToInt32(n) : n \in Strlen(b) },
             buf |-> b,
             dAcc |-> {data.idx}]
\* The descriptor after the call, the values it may return, the buffer and the
\* dentry read.
ReadDir(data, offset, prior, len, tail) ==
    IF data.idx >= data.max
    THEN [fd |-> data, ret |-> {0}, buf |-> prior, dAcc |-> {}]
    ELSE LET b == Strncpy(prior, DirFilename(data) \o tail \o <<0>>, len)
         IN [fd |-> [data EXCEPT !.idx = Add32(data.idx, 1)],
             ret |-> { ToInt32(n) : n \in Strlen(b) },
             buf |-> b,
             dAcc |-> {data.idx}]

\* ---------------------------------------------------------------- readBlock
\* RawBlockId without the block of the boot block.
RawBlockId_NoBootBlock(datablockId) == Add32(datablockId, numInodes)
RawBlockId(datablockId) == Add32(Add32(datablockId, numInodes), 1)
ReadBlockOk(datablockId) == ~(RawBlockId(datablockId) >= numBlocks)
\* the memcpy of readBlock: source block and offset, length, and the position
\* in the caller's buffer (buf + read) it writes to
BlockCopy(datablockId, offset, dst, len) ==
    [raw |-> RawBlockId(datablockId), off |-> offset, len |-> len, dst |-> dst]

\* ----------------------------------------------------------------- readData
RECURSIVE ReadDataLoop(_, _, _, _, _, _, _)
ReadDataLoop(ino, i, length, bytesRemaining, realOffset, read, cps) ==
    IF ~(i < ino.numDataBlocks)
    THEN [ret |-> ToInt32(read), copies |-> cps]
    ELSE LET datablockId == ino.datablocks[i + 1] IN
         IF datablockId <= numTotalDataBlocks
         THEN LET len1 == IF length > bytesRemaining THEN bytesRemaining ELSE length
                  len == IF len1 > BlockSize THEN BlockSize ELSE len1
                  cps2 == Append(cps, BlockCopy(datablockId, realOffset, read, len))
              IN IF ~ReadBlockOk(datablockId)
                 THEN [ret |-> 0 - 1, copies |-> cps]
                 ELSE IF Sub32(length, len) <= 0
                      THEN [ret |-> ToInt32(Add32(read, len)), copies |-> cps2]
                      ELSE ReadDataLoop(ino, i + 1, Sub32(length, len),
                                        Sub32(bytesRemaining, len), 0, Add32(read, len), cps2)
         ELSE [ret |-> 0 - 1, copies |-> cps]

ReadData(inode, offset, length, ino) ==
    IF inode <= numInodes
    THEN LET r == ReadDataLoop(ino, offset \div BlockSize, length,
                               Sub32(ino.size, offset), offset % BlockSize, 0, <<>>)
         IN [ret |-> r.ret, copies |-> r.copies, iAcc |-> {inode}]
    ELSE [ret |-> 0 - 1, copies |-> <<>>, iAcc |-> {}]

\* The caller's buffer of n cells after the copies: each written cell holds the
\* image address it was copied from.
ApplyCopies(n, cps) ==
    [p \in 1..n |->
        LET hits == { k \in 1..Len(cps) : cps[k].dst < p /\ p <= cps[k].dst + cps[k].len } IN
        IF hits = {} THEN Untouched
        ELSE LET k == CHOOSE h \in hits : \A g \in hits : g <= h
             IN cps[k].raw * BlockSize + cps[k].off + (p - 1 - cps[k].dst)]

\* --------------------------------------------------------------------- read
Read ==
    \E f \in OpenFds :
        /\ Idle
        /\ IF fds[f].filetype = DIRECTORY
           THEN \E offset \in {0, MaxOffset}, len \in 0..DirBufLen, fill \in Chars :
                \E tail \in FilenameOverrun(DirFilename(fds[f]), len) :
                LET r == ReadDir(fds[f], offset, [p \in 1..DirBufLen |-> fill], len, tail) IN
                \E ret \in r.ret :
                /\ fds' = [fds EXCEPT ![f] = r.fd]
                /\ op' = [NoOp EXCEPT !.kind = "read", !.fd = f, !.len = len]
                /\ res' = [NoRes EXCEPT !.ret = ret, !.buf = r.buf, !.dAcc = r.dAcc]
                /\ UNCHANGED tables
           ELSE \E offset \in 0..MaxOffset, len \in 0..MaxLen, ino \in InodeAt(fds[f].inode) :
                LET r == ReadData(fds[f].inode, offset, len, ino) IN
                /\ op' = [NoOp EXCEPT !.kind = "read", !.fd = f, !.offset = offset, !.len = len]
                /\ res' = [NoRes EXCEPT !.ret = r.ret, !.buf = ApplyCopies(len, r.copies),
                                        !.copies = r.copies, !.iAcc = r.iAcc]
                /\ UNCHANGED <<tables, fds>>

\* -------------------------------------------------------------------- write
\* write reporting len bytes written.
WriteResult_Len(data, offset, len) == [fd |-> data, ret |-> len]
WriteResult(data, offset, len) == [fd |-> data, ret |-> 0 - 1]
Write ==
    \E f \in OpenFds, offset \in {0, MaxOffset}, len \in {0, MaxLen} :
        /\ Idle
        /\ fds' = [fds EXCEPT ![f] = WriteResult(fds[f], offset, len).fd]
        /\ op' = [NoOp EXCEPT !.kind = "write", !.fd = f]
        /\ res' = [NoRes EXCEPT !.ret = WriteResult(fds[f], offset, len).ret]
        /\ UNCHANGED tables

\* -------------------------------------------------------------------- close
Close ==
    \E f \in OpenFds :
        /\ Idle
        /\ fds' = [fds EXCEPT ![f] = NoFd]
        /\ op' = [NoOp EXCEPT !.kind = "close", !.fd = f]
        /\ res' = [NoRes EXCEPT !.ret = 1]
        /\ UNCHANGED tables

\* -------------------------------------------- fstat / canSeek / getFileSize
Fstat ==
    \E f \in OpenFds : \E ino \in InodeAt(fds[f].inode) :
        /\ Idle
        /\ op' = [NoOp EXCEPT !.kind = "fstat", !.fd = f]
        /\ res' = IF fds[f].filetype = DIRECTORY
                  THEN [NoRes EXCEPT !.st = [NoStat EXCEPT !.st_mode = "S_IFDIR"]]
                  ELSE IF fds[f].filetype = SPECIAL_DEVICE
                  THEN [NoRes EXCEPT !.st = [NoStat EXCEPT !.st_mode = "S_IFCHR"]]
                  ELSE [NoRes EXCEPT !.st = [st_mode |-> "S_IFREG",
                                             st_size |-> ino.size],
                                     !.iAcc = {fds[f].inode}]
        /\ UNCHANGED <<tables, fds>>

CanSeek ==
    \E f \in OpenFds :
        /\ Idle
        /\ op' = [NoOp EXCEPT !.kind = "canSeek", !.fd = f]
        /\ res' = [NoRes EXCEPT !.ret = IF fds[f].filetype = NORMAL_FILE THEN 1 ELSE 0]
        /\ UNCHANGED <<tables, fds>>

GetFileSize ==
    \E f \in OpenFds : \E ino \in InodeAt(fds[f].inode) :
        /\ Idle
        /\ op' = [NoOp EXCEPT !.kind = "getFileSize", !.fd = f]
        /\ res' = IF fds[f].filetype # NORMAL_FILE
                  THEN [NoRes EXCEPT !.ret = Nothing]
                  ELSE [NoRes EXCEPT !.ret = ino.size,
                                     !.iAcc = {fds[f].inode}]
        /\ UNCHANGED <<tables, fds>>

\* --------------------------------------------------------------- readDentry
ReadDentryByName ==
    \E name \in OpenNames :
        /\ Idle
        /\ op' = [NoOp EXCEPT !.kind = "readDentryByName", !.name = name]
        /\ res' = IF ~Found(name)
                  THEN [NoRes EXCEPT !.ret = 0 - 1]
                  ELSE [NoRes EXCEPT !.ret = 0,
                                     !.dentry = dentries[DentryIndexOfFilename(name) + 1],
                                     !.dAcc = {DentryIndexOfFilename(name)}]
        /\ UNCHANGED <<tables, fds>>

ReadDentryByIndex ==
    \E index \in 0..(MaxNumFiles + 1) : \E d \in DentryAt(index) :
        /\ Idle
        /\ op' = [NoOp EXCEPT !.kind = "readDentryByIndex", !.index = index]
        /\ res' = IF index <= numDentries
                  THEN [NoRes EXCEPT !.ret = 0, !.dentry = d,
                                     !.dAcc = {index}]
                  ELSE [NoRes EXCEPT !.ret = 0 - 1]
        /\ UNCHANGED <<tables, fds>>

\* The caller takes the result; the record of the call is cleared for the next one.
Return ==
    /\ ~Idle
    /\ op' = NoOp
    /\ res' = NoRes
    /\ UNCHANGED <<tables, fds>>

\* ------------------------------------------------------------ specifications
Next ==
    \/ Open
    \/ Read
    \/ Write
    \/ Close
    \/ Fstat
    \/ CanSeek
    \/ GetFileSize
    \/ ReadDentryByName
    \/ ReadDentryByIndex
    \/ Return

\* the driver over the images whose inode table varies
Init == InitState(DataImages)
Spec == Init /\ [][Next]_vars

\* the driver over the images whose directory varies
InitDir == InitState(DirImages)
SpecDir == InitDir /\ [][Next]_vars

\* =================================================================== claims
\* the descriptor the last call was made on, when it is still there
IsFileRead == op.kind = "read" /\ fds[op.fd].filetype # DIRECTORY
TheInode == inodes[fds[op.fd].inode + 1]
Written(b) == { p \in 1..Len(b) : b[p] # Untouched }

\* ----------------------------------------------------------------------- C1
\* The image address of byte p (from 1) of a file, as the driver resolves it.
FileContent(ino) ==
    [p \in 1..ino.size |->
        ((ino.datablocks[((p - 1) \div BlockSize) + 1] + numInodes + 1) % U32) * BlockSize
            + ((p - 1) % BlockSize)]
BlocksReadable(ino) ==
    \A k \in 1..ino.numDataBlocks :
        /\ ino.datablocks[k] <= numTotalDataBlocks
        /\ (ino.datablocks[k] + numInodes + 1) % U32 < numBlocks
\* The same by the on-image layout: the data blocks follow the boot block's
\* numInodes inode blocks, and a block is inside the image when it ends in it.
LayoutContent(ino) ==
    [p \in 1..ino.size |->
        (ino.datablocks[((p - 1) \div BlockSize) + 1] + image.numInodes + 1) * BlockSize
            + ((p - 1) % BlockSize)]
BlocksInImage(ino) ==
    \A k \in 1..ino.numDataBlocks :
        (ino.datablocks[k] + image.numInodes + 1) * BlockSize + BlockSize <= image.numBytes
WholeFileRead ==
    /\ IsFileRead
    /\ fds[op.fd].filetype = NORMAL_FILE
    /\ fds[op.fd].inode < numInodes
    /\ op.offset = 0
    /\ op.len = TheInode.size
OpenedFromDentry ==
    \E i \in 1..numDentries :
        /\ NameOf(dentries[i].filename) = op.name
        /\ fds[op.fd].filetype = dentries[i].filetype
        /\ dentries[i].filetype # DIRECTORY => fds[op.fd].inode = dentries[i].inode

DirReadStep(f) == Idle /\ op'.kind = "read" /\ op'.fd = f /\ fds[f].filetype = DIRECTORY
Delivered == CStr(res'.buf)
IsPrefix(s, t) == Len(s) <= Len(t) /\ SubSeq(t, 1, Len(s)) = s

C3_ReturnsCopiedLength ==
    [][\A f \in 1..MaxOpen :
        (DirReadStep(f) /\ fds[f].idx < fds[f].max) =>
            /\ res'.ret = Min(op'.len, Len(NameOf(dentries[fds[f].idx + 1].filename)))
            /\ res'.ret <= op'.len]_vars

\* ----------------------------------------------------------------------- C4
\* C4: no block copy that readData issues crosses the end of its data block:
\* blockOffset + len <= BlockSize in every readBlock call (stated here for the
\* reads of a valid inode that start inside the file, where size - offset does
\* not wrap).
C4_CopyStaysInBlock ==
    (IsFileRead /\ fds[op.fd].inode < numInodes /\ op.offset <= TheInode.size) =>
        \A k \in 1..Len(res.copies) : res.copies[k].off + res.copies[k].len <= BlockSize

\* ----------------------------------------------------------------------- C5
\* C5: readData with an inode index of numInodes or more fails with a negative
\* result, reads no inode-table entry and copies nothing.
C5_InodeOutOfRangeFails ==
    (IsFileRead /\ fds[op.fd].inode >= numInodes)
        => (res.ret < 0 /\ res.iAcc = {} /\ res.copies = <<>>)

\* ----------------------------------------------------------------------- C6
\* C6: write on any descriptor returns the read-only failure (-1) and changes
\* neither the tables nor any descriptor.
C6_WriteIsReadOnly ==
    [][(Idle /\ op'.kind = "write") =>
        (res'.ret = 0 - 1 /\ fds' = fds /\ tables' = tables)]_vars
\* write has been called on a directory descriptor whose cursor had moved
C6_Witness ==
    /\ op.kind = "write"
    /\ fds[op.fd].filetype = DIRECTORY
    /\ fds[op.fd].idx > 0
    /\ \E g \in OpenFds : fds[g].filetype # DIRECTORY
    /\ res.ret = 0 - 1

\* ----------------------------------------------------------------------- C7
\* C7: every block copy of a read takes a raw block id between numInodes + 1 (of
\* the image's boot block) and numBlocks - 1: no byte is copied from the boot
\* block, an inode block or a block beyond the image.
C7_CopyFromDataRegion ==
    \A k \in 1..Len(res.copies) :
        res.copies[k].len > 0 =>
            /\ image.numInodes + 1 <= res.copies[k].raw
            /\ res.copies[k].raw < numBlocks

\* ----------------------------------------------------------------------- C8
\* C8: the tables never change; a directory descriptor has 0 <= idx <= max =
\* numDentries, is created by open with idx = 0, and a descriptor changes only
\* by close of it or, for a directory, by a read on it, which adds 1 to idx.
C8_DescriptorFrame ==
    [][/\ tables' = tables
       /\ \A f \in 1..MaxOpen :
            /\ fds'[f].filetype = DIRECTORY =>
                 (0 <= fds'[f].idx /\ fds'[f].idx <= fds'[f].max /\ fds'[f].max = numDentries)
            /\ (fds[f] = NoFd /\ fds'[f] # NoFd) =>
                 (op'.kind = "open" /\ op'.fd = f /\ fds'[f].idx = 0)
            /\ (fds[f] # NoFd /\ fds'[f] # fds[f]) =>
                 \/ op'.kind = "close" /\ op'.fd = f /\ fds'[f] = NoFd
                 \/ /\ op'.kind = "read" /\ op'.fd = f
                    /\ fds[f].filetype = DIRECTORY
                    /\ fds'[f] = [fds[f] EXCEPT !.idx = fds[f].idx + 1]]_vars
\* two directory descriptors with different cursors, the second just read
C8_Witness ==
    /\ fds[1].filetype = DIRECTORY
    /\ fds[2].filetype = DIRECTORY
    /\ fds[1].idx = 2
    /\ fds[2].idx = 1
    /\ op.kind = "read"
    /\ op.fd = 2

\* ----------------------------------------------------------------------- C9
\* C9: a successful readData on a valid inode returns at most
\* min(length, size - offset) when offset <= size, and with offset >= size it
\* returns 0 or an error and writes nothing into buf.
C9_NoReadPastEnd ==
    (IsFileRead /\ fds[op.fd].inode < numInodes) =>
        /\ (op.offset <= TheInode.size /\ res.ret >= 0)
              => res.ret <= Min(op.len, TheInode.size - op.offset)
        /\ op.offset >= TheInode.size => (res.ret <= 0 /\ Written(res.buf) = {})

\* ---------------------------------------------------------------------- C10
\* C10: every call reads the dentry table only at indices below numDentries and
\* the inode table only at indices below numInodes.
C10_TableAccessInBounds ==
    /\ \A i \in res.dAcc : i < numDentries
    /\ \A i \in res.iAcc : i < numInodes

====
